---------------------------- MODULE Spec2Model ----------------------------
(***************************************************************************)
(* A model of crawler.py: the paginated concurrent fetch (fetch_courses),  *)
(* the record transformer (transform) and the driver (main).               *)
(***************************************************************************)
EXTENDS Integers, Sequences, FiniteSets, TLC

(***************************************************************************)
(* Bounds of the model.                                                    *)
(***************************************************************************)
\* crawler.py sets PAGE_SIZE = 1000; the model runs the same code with a small
\* page size, so that datasets of several pages stay small
PAGE_SIZE == 2

\* the largest number of pages the remote dataset spans at the start
MaxPages == 3
\* how many times the remote dataset may change during one crawl
MaxChanges == 1
\* the longest teacherAssignmentList of well-formed entries drawn as input
MaxTeachers == 2

(***************************************************************************)
(* JSON values as Python holds them after resp.json(): every value carries *)
(* its Python type in the field t.  A dict is a function over Keys whose   *)
(* missing keys map to Absent.                                             *)
(***************************************************************************)
Keys == {"course", "code", "teacherAssignmentList", "openDepartment",
         "nameZh", "credits", "person"}

Absent == [t |-> "absent"]
None == [t |-> "NoneType"]
Str(s) == [t |-> "str", s |-> s]
JInt(n) == [t |-> "int", n |-> n]
Float(n) == [t |-> "float", n |-> n]
List(xs) == [t |-> "list", xs |-> xs]
Dict(f) == [t |-> "dict", f |-> f]

NoKeys == [k \in Keys |-> Absent]
EmptyDict == Dict(NoKeys)
\* {k1: v1}
Dict1(k1, v1) == Dict([NoKeys EXCEPT ![k1] = v1])
\* {k1: v1, k2: v2}
Dict2(k1, v1, k2, v2) == Dict([NoKeys EXCEPT ![k1] = v1, ![k2] = v2])

(***************************************************************************)
(* The outcome of evaluating a Python expression: a value or an exception. *)
(***************************************************************************)
Ok(v) == [ok |-> TRUE, v |-> v]
Raise(e) == [ok |-> FALSE, exc |-> e]

\* d.get(key, default): only a dict has the attribute get
dict_get(d, key, default) ==
    IF d.t # "dict" THEN Raise("AttributeError")
    ELSE IF d.f[key].t = "absent" THEN Ok(default)
    ELSE Ok(d.f[key])

\* v[key] with a string key
subscript(v, key) ==
    IF v.t = "dict"
    THEN IF v.f[key].t = "absent" THEN Raise("KeyError") ELSE Ok(v.f[key])
    ELSE Raise("TypeError")

\* the keys of a dict, in a fixed order
RECURSIVE KeySeq(_, _)
KeySeq(f, ks) ==
    IF ks = {} THEN << >>
    ELSE LET k == CHOOSE x \in ks : TRUE
         IN  (IF f[k].t = "absent" THEN << >> ELSE << Str(k) >>)
             \o KeySeq(f, ks \ {k})

\* the items `for t in v` yields: a list's elements, a dict's keys, a
\* string's characters (one str for each; which character it is makes no
\* difference to t["person"], a TypeError); anything else is not iterable
iterate(v) ==
    CASE v.t = "list" -> Ok(v.xs)
      [] v.t = "dict" -> Ok(KeySeq(v.f, Keys))
      [] v.t = "str"  -> Ok([i \in 1..Len(v.s) |-> Str("char")])
      [] OTHER        -> Raise("TypeError")

\* faulty variant: the names joined in reverse order
RECURSIVE JoinStrReversed(_)
JoinStrReversed(ss) ==
    IF Len(ss) = 0 THEN ""
    ELSE IF Len(ss) = 1 THEN ss[1]
    ELSE JoinStrReversed(Tail(ss)) \o "," \o ss[1]

RECURSIVE JoinStr(_)
JoinStr(ss) ==
    IF Len(ss) = 0 THEN ""
    ELSE IF Len(ss) = 1 THEN ss[1]
    ELSE ss[1] \o "," \o JoinStr(Tail(ss))

\* ",".join(items): every item must be a str
join(items) ==
    IF \E i \in 1..Len(items) : items[i].t # "str" THEN Raise("TypeError")
    ELSE Ok(Str(JoinStr([i \in 1..Len(items) |-> items[i].s])))

\* the strings float() parses, with their values
NumericStr == {"0", "3"}
StrValue(s) == IF s = "3" THEN 3 ELSE 0

\* float(v)
float(v) ==
    CASE v.t = "int"   -> Ok(Float(v.n))
      [] v.t = "float" -> Ok(v)
      [] v.t = "str"   -> IF v.s \in NumericStr THEN Ok(Float(StrValue(v.s)))
                          ELSE Raise("ValueError")
      [] OTHER         -> Raise("TypeError")

(***************************************************************************)
(* transform (crawler.py 49-57).  The dict display evaluates its values in *)
(* order (name, no, teachers, credits, department); the first exception    *)
(* ends the call.                                                          *)
(***************************************************************************)
\* raw.get(key, {}).get("nameZh", "")
NameZhOf(raw, key) ==
    LET d == dict_get(raw, key, EmptyDict)
    IN  IF ~d.ok THEN d ELSE dict_get(d.v, "nameZh", Str(""))

\* t["person"]["nameZh"]
PersonName(t) ==
    LET p == subscript(t, "person")
    IN  IF ~p.ok THEN p ELSE subscript(p.v, "nameZh")

\* ",".join(t["person"]["nameZh"] for t in raw.get("teacherAssignmentList", []))
\* join first drains the generator (the first failing entry raises), then
\* checks that every item is a str
TeachersOf(raw) ==
    LET l == dict_get(raw, "teacherAssignmentList", List(<< >>))
    IN  IF ~l.ok THEN l
        ELSE LET it == iterate(l.v)
             IN  IF ~it.ok THEN it
                 ELSE LET names == [i \in 1..Len(it.v) |-> PersonName(it.v[i])]
                          bad == {i \in 1..Len(names) : ~names[i].ok}
                      IN  IF bad # {}
                          THEN names[CHOOSE i \in bad : \A j \in bad : i <= j]
                          ELSE join([i \in 1..Len(names) |-> names[i].v])

\* float(raw.get("course", {}).get("credits", 0))
CreditsOf(raw) ==
    LET d == dict_get(raw, "course", EmptyDict)
    IN  IF ~d.ok THEN d
        ELSE LET c == dict_get(d.v, "credits", JInt(0))
             IN  IF ~c.ok THEN c ELSE float(c.v)

transform(raw) ==
    LET name == NameZhOf(raw, "course")
        no == dict_get(raw, "code", Str(""))
        teachers == TeachersOf(raw)
        credits == CreditsOf(raw)
        department == NameZhOf(raw, "openDepartment")
    IN  CASE ~name.ok       -> name
          [] ~no.ok         -> no
          [] ~teachers.ok   -> teachers
          [] ~credits.ok    -> credits
          [] ~department.ok -> department
          [] OTHER -> Ok([name |-> name.v, no |-> no.v, teachers |-> teachers.v,
                          credits |-> credits.v, department |-> department.v])

(***************************************************************************)
(* The remote API (GET <endpoint>?queryPage__=<page>,<pageSize>): the      *)
(* dataset is an ordered sequence of rows; a page is a fixed-size slice    *)
(* addressed by a 1-based index.  A row is named by an integer id; RawOf   *)
(* gives the raw record the API returns for it.                            *)
(***************************************************************************)
Min(a, b) == IF a <= b THEN a ELSE b

ServerPage(rows, page, size) ==
    SubSeq(rows, (page - 1) * size + 1, Min(page * size, Len(rows)))

Teacher(n) == Dict1("person", Dict1("nameZh", Str(n)))

\* a positive id is a well-formed record; a negative id is a record whose
\* `course` is null
RawOf(id) ==
    Dict([NoKeys EXCEPT
        !["course"] = IF id < 0 THEN None
                      ELSE Dict2("nameZh", Str("Linear Algebra"), "credits", JInt(4)),
        !["code"] = Str(ToString(id)),
        !["teacherAssignmentList"] = List(<< Teacher("Zhang"), Teacher("Li") >>),
        !["openDepartment"] = Dict1("nameZh", Str("Math Dept"))])

Rows(n) == [i \in 1..n |-> i]
\* n rows, the last one malformed
RowsBadLast(n) == [i \in 1..n |-> IF i = n THEN 0 - i ELSE i]

\* the dataset sizes at the start of a crawl: up to MaxPages full pages
RowCounts == 0..(MaxPages * PAGE_SIZE)

Datasets ==
    {Rows(n) : n \in RowCounts} \cup {RowsBadLast(n) : n \in {1, PAGE_SIZE + 1}}

HttpStatuses == {200, 500}
\* what a response body can be: the expected envelope, not JSON at all, or
\* JSON without the field the caller reads
Bodies == {"envelope", "notjson", "nofield"}

(***************************************************************************)
(* State.                                                                  *)
(***************************************************************************)
VARIABLES
    remote,       \* the remote dataset: a sequence of row ids
    changes,      \* how many times the remote dataset changed since Init
    fpc,          \* fetch_courses: "init", "probing", "probed", "fetching",
                  \*                "done", "failed"
    total,        \* fetch_courses.total
    total_pages,  \* fetch_courses.total_pages
    sent,         \* every session.get issued, in order: [page, size]
    non2xx,       \* TRUE once some response carried a non-2xx status
    task,         \* task[p]: the state of the task fetch_page(p)
    res,          \* gather's res: [i, data] in completion order
    result,       \* the list fetch_courses returned (main.raw)
    progress,     \* the units the progress bar of gather has counted
    error,        \* the exception that left fetch_courses or main, "" if none
    mpc,          \* main: "fetching", "fetched", "opened", "saved", "raised"
    file,         \* the file at args.output
    traw,         \* the argument of a stand-alone call of transform
    tpc,          \* that call: "call", "returned", "raised"
    tout          \* its outcome

vars == << remote, changes, fpc, total, total_pages, sent, non2xx, task, res,
           result, progress, error, mpc, file, traw, tpc, tout >>

remoteVars == << remote, changes >>
fetchVars == << fpc, total, total_pages, sent, non2xx, task, res, result, progress,
               error >>
mainVars == << mpc, file >>
transformVars == << traw, tpc, tout >>

(***************************************************************************)
(* fetch_courses (crawler.py 28-46).                                       *)
(***************************************************************************)
\* faulty variants of the page count: one page too many; the last, partial
\* page dropped
TotalPagesPlusOne(t) == t \div PAGE_SIZE + 1
TotalPagesFloor(t) == t \div PAGE_SIZE

\* total_pages = (total + PAGE_SIZE - 1) // PAGE_SIZE
TotalPages(t) == (t + PAGE_SIZE - 1) \div PAGE_SIZE

\* faulty variant: page 1 is taken as already fetched by the probe
PageRequestsSkipFirst(n) == [k \in 1..(n - 1) |-> [page |-> k + 1, size |-> PAGE_SIZE]]

\* tasks = [fetch_page(p) for p in range(1, total_pages + 1)]: the requests
\* the tasks issue, {"queryPage__": f"{page},{PAGE_SIZE}"}
PageRequests(n) == [p \in 1..n |-> [page |-> p, size |-> PAGE_SIZE]]

\* faulty variant: res left in completion order
Unsorted(rs) == rs

\* sorted(res): ascending by the task's index i. enumerate gives every task
\* an index of its own, so the k-th element is the one with k - 1 smaller indices
Sorted(rs) ==
    [k \in 1..Len(rs) |->
        rs[CHOOSE j \in 1..Len(rs) :
               Cardinality({m \in 1..Len(rs) : rs[m].i < rs[j].i}) = k - 1]]

\* faulty variant: the pages in completion order
gatherCompletionOrder(rs) == [k \in 1..Len(rs) |-> rs[k].data]

\* what tqdm_asyncio.gather returns: [r for _, r in sorted(res)]
gather(rs) == LET sorted == Sorted(rs) IN [k \in 1..Len(rs) |-> sorted[k].data]

\* [course for page in pages for course in page]
RECURSIVE Flatten(_)
Flatten(pages) ==
    IF Len(pages) = 0 THEN << >> ELSE Head(pages) \o Flatten(Tail(pages))

\* faulty variant: the progress bar does not advance
ProgressStuck(n) == n

\* the progress bar after one more result was taken from it (n += 1)
ProgressAfter(n) == n + 1

\* the exception a response raises in resp.json()[field], "" if none
ResponseError(body) ==
    CASE body = "notjson" -> "ContentTypeError"
      [] body = "nofield" -> "KeyError"
      [] OTHER            -> ""

\* line 33: session.get(url, params={"queryPage__": "1,1"})
ProbeSend ==
    /\ fpc = "init"
    /\ fpc' = "probing"
    /\ sent' = Append(sent, [page |-> 1, size |-> 1])
    /\ UNCHANGED << total, total_pages, non2xx, task, res, result, progress, error >>
    /\ UNCHANGED << remoteVars, mainVars, transformVars >>

\* faulty variant: a probe that fails in transport is tried again
ProbeTransportErrorRetry ==
    /\ fpc = "probing"
    /\ fpc' = "init"
    /\ UNCHANGED << total, total_pages, sent, non2xx, task, res, result, progress, error >>
    /\ UNCHANGED << remoteVars, mainVars, transformVars >>

\* line 33: the request fails in transport; the exception leaves
\* fetch_courses and main
ProbeTransportError ==
    /\ fpc = "probing"
    /\ fpc' = "failed"
    /\ error' = "ClientError"
    /\ mpc' = "raised"
    /\ UNCHANGED << total, total_pages, sent, non2xx, task, res, result, progress, file >>
    /\ UNCHANGED << remoteVars, transformVars >>

\* lines 33-34: a response arrives; the status is not looked at;
\* total = (await resp.json())["_page_"]["totalRows"]
ProbeRespond(status, body) ==
    /\ fpc = "probing"
    /\ non2xx' = (non2xx \/ status # 200)
    /\ IF ResponseError(body) = ""
       THEN /\ total' = Len(remote)
            /\ fpc' = "probed"
            /\ UNCHANGED << error, mpc >>
       ELSE /\ fpc' = "failed"
            /\ error' = ResponseError(body)
            /\ mpc' = "raised"
            /\ UNCHANGED total
    /\ UNCHANGED << total_pages, sent, task, res, result, progress, file >>
    /\ UNCHANGED << remoteVars, transformVars >>

\* faulty variant: the first page is requested without awaiting the probe's
\* response
LaunchEarly ==
    /\ fpc = "probing"
    /\ total_pages' = 1
    /\ task' = << "inflight" >>
    /\ sent' = sent \o PageRequests(1)
    /\ fpc' = "fetching"
    /\ UNCHANGED << total, non2xx, res, result, progress, error >>
    /\ UNCHANGED << remoteVars, mainVars, transformVars >>

\* faulty variant: the pages are fetched one after the other, page 1 first
LaunchOneByOne ==
    /\ fpc = "probed"
    /\ total_pages' = TotalPages(total)
    /\ task' = [p \in 1..TotalPages(total) |-> IF p = 1 THEN "inflight" ELSE "pending"]
    /\ sent' = sent \o PageRequests(Min(1, TotalPages(total)))
    /\ fpc' = "fetching"
    /\ UNCHANGED << total, non2xx, res, result, progress, error >>
    /\ UNCHANGED << remoteVars, mainVars, transformVars >>

\* faulty variant: the page count is taken from the dataset as it is when the
\* tasks are built, not from the probe
LaunchReprobe ==
    /\ fpc = "probed"
    /\ total_pages' = TotalPages(Len(remote))
    /\ task' = [p \in 1..TotalPages(Len(remote)) |-> "inflight"]
    /\ sent' = sent \o PageRequests(TotalPages(Len(remote)))
    /\ fpc' = "fetching"
    /\ UNCHANGED << total, non2xx, res, result, progress, error >>
    /\ UNCHANGED << remoteVars, mainVars, transformVars >>

\* lines 37-45: the page count, the tasks, and gather starting every task:
\* each task runs up to its session.get before any response is handled
Launch ==
    /\ fpc = "probed"
    /\ total_pages' = TotalPages(total)
    /\ task' = [p \in 1..TotalPages(total) |-> "inflight"]
    /\ sent' = sent \o PageRequests(TotalPages(total))
    /\ fpc' = "fetching"
    /\ UNCHANGED << total, non2xx, res, result, progress, error >>
    /\ UNCHANGED << remoteVars, mainVars, transformVars >>

\* faulty variant: the failure of a task is held back while siblings run
PageTransportErrorDeferred(p) ==
    /\ fpc \in {"fetching", "failed"}
    /\ p \in 1..total_pages
    /\ task[p] = "inflight"
    /\ task' = [task EXCEPT ![p] = "failed"]
    /\ IF fpc = "fetching" /\ \A q \in 1..total_pages : q # p => task[q] # "inflight"
       THEN fpc' = "failed" /\ error' = "ClientError" /\ mpc' = "raised"
       ELSE UNCHANGED << fpc, error, mpc >>
    /\ UNCHANGED << total, total_pages, sent, non2xx, res, result, progress, file >>
    /\ UNCHANGED << remoteVars, transformVars >>

\* lines 41-42 in the task fetch_page(p): the request fails in transport.
\* The first failing task makes gather raise; the exception leaves
\* fetch_courses and main while the sibling tasks stay in flight
PageTransportError(p) ==
    /\ fpc \in {"fetching", "failed"}
    /\ p \in 1..total_pages
    /\ task[p] = "inflight"
    /\ task' = [task EXCEPT ![p] = "failed"]
    /\ IF fpc = "fetching"
       THEN fpc' = "failed" /\ error' = "ClientError" /\ mpc' = "raised"
       ELSE UNCHANGED << fpc, error, mpc >>
    /\ UNCHANGED << total, total_pages, sent, non2xx, res, result, progress, file >>
    /\ UNCHANGED << remoteVars, transformVars >>

\* faulty variant: a page whose body cannot be read counts as an empty page
\* and the crawl goes on
PageRespondSwallow(p, status, body) ==
    /\ fpc \in {"fetching", "failed"}
    /\ p \in 1..total_pages
    /\ task[p] = "inflight"
    /\ non2xx' = (non2xx \/ status # 200)
    /\ task' = [task EXCEPT ![p] = IF ResponseError(body) = "" THEN "ok" ELSE "failed"]
    /\ res' = IF fpc = "fetching"
              THEN Append(res, [i |-> p - 1,
                                data |-> IF ResponseError(body) = ""
                                         THEN ServerPage(remote, p, PAGE_SIZE)
                                         ELSE << >>])
              ELSE res
    /\ progress' = IF fpc = "fetching" THEN progress + 1 ELSE progress
    /\ UNCHANGED << fpc, error, mpc >>
    /\ UNCHANGED << total, total_pages, sent, result, file >>
    /\ UNCHANGED << remoteVars, transformVars >>

\* lines 41-42 in the task fetch_page(p): a response arrives; the status is
\* not looked at; return (await resp.json())["data"].  gather appends
\* (i, data) to res in completion order, i the task's 0-based position, and
\* asks its progress bar for the next task, which counts one unit; a task
\* that raises ends gather before its unit is counted
PageRespond(p, status, body) ==
    /\ fpc \in {"fetching", "failed"}
    /\ p \in 1..total_pages
    /\ task[p] = "inflight"
    /\ non2xx' = (non2xx \/ status # 200)
    /\ IF ResponseError(body) = ""
       THEN /\ task' = [task EXCEPT ![p] = "ok"]
            /\ res' = IF fpc = "fetching"
                      THEN Append(res, [i |-> p - 1,
                                        data |-> ServerPage(remote, p, PAGE_SIZE)])
                      ELSE res
            /\ progress' = IF fpc = "fetching" THEN ProgressAfter(progress)
                           ELSE progress
            /\ UNCHANGED << fpc, error, mpc >>
       ELSE /\ task' = [task EXCEPT ![p] = "failed"]
            /\ IF fpc = "fetching"
               THEN fpc' = "failed" /\ error' = ResponseError(body) /\ mpc' = "raised"
               ELSE UNCHANGED << fpc, error, mpc >>
            /\ UNCHANGED << res, progress >>
    /\ UNCHANGED << total, total_pages, sent, result, file >>
    /\ UNCHANGED << remoteVars, transformVars >>

\* faulty variant: gather returns as soon as one task has completed
GatherReturnFirst ==
    /\ fpc = "fetching"
    /\ Len(res) >= 1
    /\ result' = Flatten(gather(res))
    /\ fpc' = "done"
    /\ mpc' = "fetched"
    /\ UNCHANGED << total, total_pages, sent, non2xx, task, res, error, progress, file >>
    /\ UNCHANGED << remoteVars, transformVars >>

\* lines 45-46: every task has completed; gather returns the pages in task
\* order and fetch_courses returns their concatenation to main (line 72)
GatherReturn ==
    /\ fpc = "fetching"
    /\ Len(res) = total_pages
    /\ result' = Flatten(gather(res))
    /\ fpc' = "done"
    /\ mpc' = "fetched"
    /\ UNCHANGED << total, total_pages, sent, non2xx, task, res, error, progress, file >>
    /\ UNCHANGED << remoteVars, transformVars >>

\* asyncio.run (line 81) cancels the tasks still pending when main has raised
ShutdownCancel ==
    /\ mpc = "raised"
    /\ \E p \in 1..total_pages : task[p] = "inflight"
    /\ task' = [p \in 1..total_pages |->
                   IF task[p] = "inflight" THEN "cancelled" ELSE task[p]]
    /\ UNCHANGED << fpc, total, total_pages, sent, non2xx, res, result, progress, error >>
    /\ UNCHANGED << remoteVars, mainVars, transformVars >>

(***************************************************************************)
(* main (crawler.py 60-77).                                                *)
(***************************************************************************)
\* faulty variant: the output is opened whether or not the fetch succeeded
MainOpenAlways ==
    /\ mpc \in {"fetched", "raised"}
    /\ file.st = "untouched"
    /\ file' = [st |-> "empty", content |-> << >>]
    /\ mpc' = "opened"
    /\ UNCHANGED << remoteVars, fetchVars, transformVars >>

\* line 75: open(args.output, "w") creates or truncates the file
MainOpen ==
    /\ mpc = "fetched"
    /\ file' = [st |-> "empty", content |-> << >>]
    /\ mpc' = "opened"
    /\ UNCHANGED << remoteVars, fetchVars, transformVars >>

\* [transform(c) for c in raw]
TransformAll(raw) == [k \in 1..Len(raw) |-> transform(RawOf(raw[k]))]

\* line 76: the list of transformed records is built first, then dumped
MainDump ==
    /\ mpc = "opened"
    /\ LET outs == TransformAll(result)
           bad == {k \in 1..Len(outs) : ~outs[k].ok}
       IN  IF bad = {}
           THEN /\ file' = [st |-> "written",
                            content |-> [k \in 1..Len(outs) |-> outs[k].v]]
                /\ mpc' = "saved"
                /\ UNCHANGED error
           ELSE /\ error' = outs[CHOOSE k \in bad : \A j \in bad : k <= j].exc
                /\ mpc' = "raised"
                /\ UNCHANGED file
    /\ UNCHANGED << fpc, total, total_pages, sent, non2xx, task, res, result, progress >>
    /\ UNCHANGED << remoteVars, transformVars >>

(***************************************************************************)
(* The remote dataset may change while the crawl runs.                     *)
(***************************************************************************)
\* a change before the probe's response is a different initial dataset, so
\* only the changes after it are modelled
Crawling == fpc \in {"probed", "fetching"}

\* a row is added at the end
RemoteGrow ==
    /\ Crawling
    /\ changes < MaxChanges
    /\ remote' = Append(remote, MaxPages * PAGE_SIZE + changes + 1)
    /\ changes' = changes + 1
    /\ UNCHANGED << fetchVars, mainVars, transformVars >>

\* the first row is removed
RemoteShrink ==
    /\ Crawling
    /\ changes < MaxChanges
    /\ Len(remote) > 0
    /\ remote' = Tail(remote)
    /\ changes' = changes + 1
    /\ UNCHANGED << fetchVars, mainVars, transformVars >>

(***************************************************************************)
(* One run of the program.                                                 *)
(***************************************************************************)
Init ==
    /\ remote \in Datasets
    /\ changes = 0
    /\ fpc = "init"
    /\ total = 0
    /\ total_pages = 0
    /\ sent = << >>
    /\ non2xx = FALSE
    /\ task = << >>
    /\ res = << >>
    /\ result = << >>
    /\ progress = 0
    /\ error = ""
    /\ mpc = "fetching"
    /\ file = [st |-> "untouched", content |-> << >>]
    /\ traw = EmptyDict
    /\ tpc = "idle"
    /\ tout = Absent

Next ==
    \/ ProbeSend
    \/ ProbeTransportError
    \/ \E status \in HttpStatuses, body \in Bodies : ProbeRespond(status, body)
    \/ Launch
    \/ \E p \in 1..total_pages : PageTransportError(p)
    \/ \E p \in 1..total_pages, status \in HttpStatuses, body \in Bodies :
          PageRespond(p, status, body)
    \/ GatherReturn
    \/ ShutdownCancel
    \/ MainOpen
    \/ MainDump
    \/ RemoteGrow
    \/ RemoteShrink

Spec == Init /\ [][Next]_vars

(***************************************************************************)
(* transform on its own: one call on each raw record of a bounded set.     *)
(***************************************************************************)
Names == {"Zhang", "Li"}

RECURSIVE SeqsUpTo(_, _)
\* the sequences over S of length at most n
SeqsUpTo(S, n) ==
    IF n = 0 THEN {<< >>}
    ELSE LET shorter == SeqsUpTo(S, n - 1)
         IN  shorter \cup {Append(q, x) : q \in shorter, x \in S}

WellFormedTeachers ==
    {List([k \in 1..Len(ns) |-> Teacher(ns[k])]) : ns \in SeqsUpTo(Names, MaxTeachers)}

CourseShapes ==
    { Absent, None, Str("x"), EmptyDict,
      Dict2("nameZh", Str("Linear Algebra"), "credits", JInt(4)),
      Dict1("nameZh", Str("Linear Algebra")),
      Dict1("credits", JInt(2)),
      Dict1("credits", None),
      Dict1("credits", Str("3")),
      Dict1("credits", Str("abc")),
      Dict2("nameZh", None, "credits", Float(2)) }

CodeShapes == { Absent, Str("MATH101"), None }

TeacherShapes ==
    WellFormedTeachers \cup
    { Absent, None, Str(""), Str("ab"), EmptyDict,
      List(<< EmptyDict >>),
      List(<< Dict1("person", EmptyDict) >>),
      List(<< Dict1("person", None) >>),
      List(<< Teacher("Zhang"), None >>),
      List(<< Dict1("person", Dict1("nameZh", None)) >>) }

DepartmentShapes ==
    { Absent, None, EmptyDict, List(<< >>), Dict1("nameZh", Str("Math Dept")) }

RawRecords ==
    { Dict([NoKeys EXCEPT !["course"] = c, !["code"] = n,
                          !["teacherAssignmentList"] = l, !["openDepartment"] = d]) :
        c \in CourseShapes, n \in CodeShapes, l \in TeacherShapes,
        d \in DepartmentShapes }

TInit ==
    /\ remote = << >>
    /\ changes = 0
    /\ fpc = "init"
    /\ total = 0
    /\ total_pages = 0
    /\ sent = << >>
    /\ non2xx = FALSE
    /\ task = << >>
    /\ res = << >>
    /\ result = << >>
    /\ progress = 0
    /\ error = ""
    /\ mpc = "fetching"
    /\ file = [st |-> "untouched", content |-> << >>]
    /\ traw \in RawRecords
    /\ tpc = "call"
    /\ tout = Absent

\* one call transform(traw)
Transform ==
    /\ tpc = "call"
    /\ tout' = transform(traw)
    /\ tpc' = IF transform(traw).ok THEN "returned" ELSE "raised"
    /\ UNCHANGED << traw, remoteVars, fetchVars, mainVars >>

TNext == Transform

TSpec == TInit /\ [][TNext]_vars

(***************************************************************************)
(* Properties of fetch_courses and main, checked under Spec.               *)
(***************************************************************************)
ProbeRequest == [page |-> 1, size |-> 1]

\* the probe's response was read: the fetch is past line 34
ProbeSucceeded ==
    \/ fpc \in {"probed", "fetching", "done"}
    \/ fpc = "failed" /\ Len(sent) > 1

\* the tasks were built and started: the fetch is past line 45's call
Launched ==
    \/ fpc \in {"fetching", "done"}
    \/ fpc = "failed" /\ Len(sent) > 1

\* the data the response to page p carried, as gather recorded it
DataOfPage(p) == (CHOOSE e \in {res[k] : k \in 1..Len(res)} : e.i = p - 1).data

\* page 1's records, then page 2's, ..., then page n's
RECURSIVE PagesInOrder(_)
PagesInOrder(n) == IF n = 0 THEN << >> ELSE PagesInOrder(n - 1) \o DataOfPage(n)

\* the same concatenation of the pages an unchanged dataset serves
RECURSIVE ServedInOrder(_)
ServedInOrder(n) ==
    IF n = 0 THEN << >>
    ELSE ServedInOrder(n - 1) \o ServerPage(remote, n, PAGE_SIZE)

RECURSIVE SumOfLengths(_)
SumOfLengths(rs) == IF Len(rs) = 0 THEN 0 ELSE Len(Head(rs).data) + SumOfLengths(Tail(rs))

\* the least n with n * b >= a
CeilDiv(a, b) == CHOOSE n \in 0..a : n * b >= a /\ \A m \in 0..a : m * b >= a => n <= m

\* how many times the request rq was issued
TimesSent(rq) == Cardinality({k \in 1..Len(sent) : sent[k] = rq})

ArrivedOutOfOrder == \E j, k \in 1..Len(res) : j < k /\ res[j].i > res[k].i

\* C1: a successful fetch_courses returns the concatenation of the pages'
\* records by ascending page index, whatever the order in which the
\* responses arrived; against a dataset that did not change during the crawl
\* that is the pages the server holds, and the length is totalRows.
C1_OrderedConcatenation ==
    fpc = "done" =>
        /\ result = PagesInOrder(total_pages)
        /\ changes = 0 =>
              /\ result = ServedInOrder(total_pages)
              /\ Len(result) = total

C1_Witness ==
    /\ fpc = "done"
    /\ changes = 0
    /\ total_pages >= 2
    /\ ArrivedOutOfOrder
    /\ Len(result) = total

\* C2: once a page request has failed (transport error, a body that is not
\* JSON, a body without `data`) the fetch has failed: no list is returned,
\* the pages that succeeded are not handed out, and the failed page was
\* requested exactly once.
C2_PageFailureFailsFetch ==
    \A p \in 1..Len(task) :
        task[p] = "failed" =>
            /\ fpc = "failed"
            /\ mpc = "raised"
            /\ result = << >>
            /\ TimesSent([page |-> p, size |-> PAGE_SIZE]) = 1

C2_Witness ==
    /\ fpc = "failed"
    /\ \E p \in 1..Len(task) : task[p] = "failed"
    /\ \E q \in 1..Len(task) : task[q] = "ok"
    /\ Len(res) > 0
    /\ result = << >>

\* C3: if the probe or a page request received a non-2xx status, the fetch
\* never returns a list and no output file is written.
C3_Non2xxFailsFetch ==
    non2xx => (fpc # "done" /\ file.st = "untouched")

\* C4: the number of page tasks is ceil(totalRows / pageSize); with
\* totalRows = 0 there is no page task, no page request is issued and the
\* result is the empty sequence.
C4_PageCount ==
    Launched =>
        /\ total_pages = CeilDiv(total, PAGE_SIZE)
        /\ Len(task) = total_pages
        /\ Len(sent) = 1 + total_pages
        /\ total = 0 =>
              /\ total_pages = 0
              /\ sent = << ProbeRequest >>
              /\ fpc = "done" => result = << >>

C4_Witness ==
    /\ fpc = "done"
    /\ total_pages >= 2
    /\ total % PAGE_SIZE # 0
    /\ Len(task) = total_pages

C4_WitnessEmpty ==
    /\ fpc = "done"
    /\ total = 0
    /\ sent = << ProbeRequest >>
    /\ result = << >>

\* C5: when the probe succeeds the requests issued are one probe (page 1,
\* size 1) and, once the tasks are started, one request of the real page
\* size for each page index 1..pageCount, page 1 included, none twice and
\* none outside that range; the result is made of the page tasks' data only.
C5_ExactRequests ==
    ProbeSucceeded =>
        /\ sent[1] = ProbeRequest
        /\ TimesSent(ProbeRequest) = 1
        /\ ~Launched => Len(sent) = 1
        /\ Launched =>
              /\ Len(sent) = 1 + total_pages
              /\ \A p \in 1..total_pages : TimesSent([page |-> p, size |-> PAGE_SIZE]) = 1
              /\ \A k \in 2..Len(sent) :
                    sent[k].size = PAGE_SIZE /\ sent[k].page \in 1..total_pages
        /\ fpc = "done" =>
              /\ Len(res) = total_pages
              /\ Len(result) = SumOfLengths(res)
              /\ \A k \in 1..Len(result) :
                    \E j \in 1..Len(res) :
                        \E m \in 1..Len(res[j].data) : result[k] = res[j].data[m]

C5_Witness ==
    /\ fpc = "done"
    /\ total_pages >= 2
    /\ Len(sent) = 1 + total_pages
    /\ sent[2] = [page |-> 1, size |-> PAGE_SIZE]

\* C6 as stated: whenever fetch_courses returns, the length of the list is
\* the total row count the probe read.
C6_LengthIsProbeTotal ==
    fpc = "done" => Len(result) = total

\* C6, amended: whenever fetch_courses returns, the length of the list is the
\* sum of the lengths of the `data` arrays of the page responses; it is the
\* total row count the probe read when the dataset did not change after the
\* probe.
C6_LengthIsSumOfPages ==
    fpc = "done" =>
        /\ Len(result) = SumOfLengths(res)
        /\ changes = 0 => Len(result) = total

C6_Witness ==
    /\ fpc = "done"
    /\ changes > 0
    /\ Len(result) # total
    /\ Len(result) = SumOfLengths(res)

\* C7: the output file is opened only after fetch_courses has returned; when
\* the probe or a page request fails the exception leaves main, the output
\* path is not opened, created or truncated, and no request is issued twice.
C7_OpenOnlyAfterFetch ==
    /\ file.st # "untouched" => fpc = "done"
    /\ mpc \in {"opened", "saved"} => fpc = "done"
    /\ fpc = "failed" =>
          /\ mpc = "raised"
          /\ error # ""
          /\ file.st = "untouched"
          /\ \A j, k \in 1..Len(sent) : sent[j] = sent[k] => j = k

C7_Witness ==
    /\ fpc = "failed"
    /\ mpc = "raised"
    /\ file.st = "untouched"
    /\ \E q \in 1..Len(task) : task[q] = "ok"
    /\ \A q \in 1..Len(task) : task[q] # "inflight"

\* C8: on every run that ends in failure the file at the output path is as it
\* was before the run or holds the complete array of Normalized Records,
\* never an empty or half-written file.
C8_NoPartialFile ==
    mpc = "raised" =>
        \/ file.st = "untouched"
        \/ file.st = "written" /\ Len(file.content) = Len(result)

(***************************************************************************)
(* Properties of transform, checked under TSpec.                           *)
(***************************************************************************)
TopLevelKeys == {"course", "code", "teacherAssignmentList", "openDepartment"}

Missing(key) == traw.f[key].t = "absent"

\* C9: transform never raises, for every raw record.
C9_TransformNeverRaises ==
    tpc # "raised"

\* C10: for a raw record in which some of the top-level keys are missing,
\* transform does not raise and the fields of the missing keys are defaulted
\* (name "", no "", teachers "", credits 0.0, department "").
C10_MissingKeysDefaulted ==
    (tpc # "call" /\ \E key \in TopLevelKeys : Missing(key)) =>
        /\ tpc = "returned"
        /\ Missing("course") =>
              tout.v.name = Str("") /\ tout.v.credits = Float(0)
        /\ Missing("code") => tout.v.no = Str("")
        /\ Missing("teacherAssignmentList") => tout.v.teachers = Str("")
        /\ Missing("openDepartment") => tout.v.department = Str("")

\* the nameZh values of a list of well-formed teacher entries, in list order
TeacherNames(l) == [k \in 1..Len(l.xs) |-> l.xs[k].f["person"].f["nameZh"].s]

\* the names separated by commas, built from the left
RECURSIVE CommaSeparated(_)
CommaSeparated(ns) ==
    IF Len(ns) = 0 THEN ""
    ELSE IF Len(ns) = 1 THEN ns[1]
    ELSE CommaSeparated(SubSeq(ns, 1, Len(ns) - 1)) \o "," \o ns[Len(ns)]

HasPath(key, sub) == traw.f[key].t = "dict" /\ traw.f[key].f[sub].t # "absent"

\* the record of the scenario of the specification
ScenarioRecord ==
    Dict([NoKeys EXCEPT
        !["course"] = Dict2("nameZh", Str("Linear Algebra"), "credits", JInt(4)),
        !["code"] = Str("MATH101"),
        !["teacherAssignmentList"] = List(<< Teacher("Zhang"), Teacher("Li") >>),
        !["openDepartment"] = Dict1("nameZh", Str("Math Dept"))])

\* C11: for a raw record whose teacherAssignmentList holds n >= 0 well-formed
\* entries, teachers is the entries' person.nameZh joined by commas in list
\* order ("" when n = 0), and name, no, credits and department are copied from
\* course.nameZh, code, course.credits and openDepartment.nameZh where the
\* record has them; a record that has them all is transformed without raising.
C11_TeachersJoinedInOrder ==
    /\ (tpc = "returned" /\ traw.f["teacherAssignmentList"] \in WellFormedTeachers) =>
          /\ tout.v.teachers =
                Str(CommaSeparated(TeacherNames(traw.f["teacherAssignmentList"])))
          /\ HasPath("course", "nameZh") => tout.v.name = traw.f["course"].f["nameZh"]
          /\ ~Missing("code") => tout.v.no = traw.f["code"]
          /\ (HasPath("course", "credits") /\ traw.f["course"].f["credits"].t = "int") =>
                tout.v.credits = Float(traw.f["course"].f["credits"].n)
          /\ HasPath("openDepartment", "nameZh") =>
                tout.v.department = traw.f["openDepartment"].f["nameZh"]
    /\ (tpc # "call" /\ traw = ScenarioRecord) => tpc = "returned"

C11_Witness ==
    /\ tpc = "returned"
    /\ traw = ScenarioRecord
    /\ tout.v = [name |-> Str("Linear Algebra"), no |-> Str("MATH101"),
                 teachers |-> Str("Zhang,Li"), credits |-> Float(4),
                 department |-> Str("Math Dept")]

(***************************************************************************)
(* Further properties of fetch_courses and main, checked under Spec.       *)
(***************************************************************************)
\* the Normalized Records of a dataset, row by row
OutputOf(rows) == [k \in 1..Len(rows) |-> transform(RawOf(rows[k])).v]

\* C12: a complete run against a dataset that did not change writes an output
\* that is a function of the dataset alone, so two such runs on the same
\* dataset write identical outputs whatever the order in which their page
\* responses completed.
C12_OutputDeterminedByDataset ==
    (mpc = "saved" /\ changes = 0) =>
        /\ file.st = "written"
        /\ file.content = OutputOf(remote)

C12_Witness ==
    /\ mpc = "saved"
    /\ changes = 0
    /\ ArrivedOutOfOrder
    /\ Len(file.content) > PAGE_SIZE
    /\ file.content = OutputOf(remote)

\* the state of the fetch operation in the terms of the stated state machine;
\* with no page to fetch the operation stays Probed until gather has returned
FetchState(pc, pages) ==
    CASE pc = "init"                   -> "Init"
      [] pc = "probing"                -> "Probing"
      [] pc = "probed"                 -> "Probed"
      [] pc = "fetching" /\ pages = 0  -> "Probed"
      [] pc = "fetching" /\ pages > 0  -> "Fetching"
      [] pc = "done" /\ pages = 0      -> "Done-Empty"
      [] pc = "done" /\ pages > 0      -> "Done"
      [] OTHER                         -> "Failed"

FetchStates ==
    {"Init", "Probing", "Probed", "Fetching", "Done-Empty", "Done", "Failed"}

\* the transitions the state machine states, with their conditions, taken
\* from the state before (a) to the state after (b) a step
StatedTransition(a, b) ==
    \/ a = "Init" /\ b = "Probing"
    \/ a = "Probing" /\ b = "Probed"
    \/ a = "Probed" /\ b = "Done-Empty" /\ TotalPages(total) = 0
    \/ a = "Probed" /\ b = "Fetching" /\ TotalPages(total) > 0
    \/ a = "Fetching" /\ b = "Done" /\ \A p \in 1..total_pages : task'[p] = "ok"
    \/ a = "Fetching" /\ b = "Failed" /\ \E p \in 1..total_pages : task'[p] = "failed"

\* C13 as stated: the fetch operation is always in one of the seven states and
\* every change of state is one of the stated transitions.
C13_StatedMachine ==
    /\ [](FetchState(fpc, total_pages) \in FetchStates)
    /\ [][FetchState(fpc, total_pages) # FetchState(fpc', total_pages') =>
             StatedTransition(FetchState(fpc, total_pages),
                              FetchState(fpc', total_pages'))]_vars

\* C13, amended: the same with one more transition, Probing -> Failed, taken
\* when the probe request fails.
C13_MachineWithProbeFailure ==
    /\ [](FetchState(fpc, total_pages) \in FetchStates)
    /\ [][FetchState(fpc, total_pages) # FetchState(fpc', total_pages') =>
             \/ StatedTransition(FetchState(fpc, total_pages),
                                 FetchState(fpc', total_pages'))
             \/ /\ FetchState(fpc, total_pages) = "Probing"
                /\ FetchState(fpc', total_pages') = "Failed"
                /\ sent' = << ProbeRequest >>]_vars

C13_Witness ==
    /\ FetchState(fpc, total_pages) = "Failed"
    /\ sent = << ProbeRequest >>
    /\ error = "ClientError"
    /\ mpc = "raised"

\* the page requests issued so far
PageRequestsSent == {k \in 1..Len(sent) : sent[k] # ProbeRequest}

\* C14: no page request is issued before the probe's response has been read;
\* when the probe fails (transport error, a body that is not JSON or lacks
\* _page_.totalRows) the fetch fails and no page request is ever issued.
C14_NoPageBeforeProbe ==
    /\ [](fpc \in {"init", "probing"} => PageRequestsSent = {})
    /\ [][sent' # sent => (fpc = "init" \/ fpc = "probed")]_vars
    /\ [][(fpc = "probing" /\ fpc' # "probed") =>
             (fpc' = "failed" /\ mpc' = "raised" /\ sent' = << ProbeRequest >>)]_vars
    /\ [][(fpc = "failed" /\ PageRequestsSent = {}) =>
             (fpc' = "failed" /\ sent' = sent)]_vars

C14_Witness ==
    /\ fpc = "failed"
    /\ error = "KeyError"
    /\ sent = << ProbeRequest >>
    /\ total_pages = 0

\* the page tasks that have completed, successfully or with an exception
Completed == {p \in 1..Len(task) : task[p] \in {"ok", "failed"}}

\* C18 as stated: the units reported are at most pageCount and are the number
\* of page tasks that have completed; they are pageCount when the fetch
\* succeeds.
C18_ProgressCountsCompleted ==
    /\ progress <= total_pages
    /\ progress = Cardinality(Completed)
    /\ fpc = "done" => progress = total_pages

\* C18, amended: the units reported are at most pageCount and are the number
\* of page results gather has collected: the number of page tasks that have
\* completed as long as none has failed, and from the first failure on the
\* number that had succeeded before it (the failed task and the siblings that
\* complete later are not counted); they are pageCount when the fetch
\* succeeds, and the list returned is the pages' data whatever was reported.
C18_ProgressCountsCollected ==
    /\ progress <= total_pages
    /\ progress = Len(res)
    /\ fpc \in {"fetching", "done"} => progress = Cardinality(Completed)
    /\ fpc = "failed" => progress <= Cardinality(Completed)
    /\ fpc = "done" => (progress = total_pages /\ result = PagesInOrder(total_pages))

C18_Witness ==
    /\ fpc = "failed"
    /\ progress = 1
    /\ \E p \in 1..Len(task) : task[p] = "failed"
    /\ Cardinality({p \in 1..Len(task) : task[p] = "ok"}) = 2

(***************************************************************************)
(* Fairness: the event loop runs every step of fetch_courses that is ready,*)
(* and every request issued eventually gets a response or fails.           *)
(***************************************************************************)
ProbeCompletes ==
    \/ ProbeTransportError
    \/ \E status \in HttpStatuses, body \in Bodies : ProbeRespond(status, body)

PageCompletes ==
    \E p \in 1..total_pages :
        \/ PageTransportError(p)
        \/ \E status \in HttpStatuses, body \in Bodies : PageRespond(p, status, body)

\* a step of the fetch operation: of its own code, or the completion of one
\* of its requests
FetchStep ==
    \/ ProbeSend
    \/ ProbeCompletes
    \/ Launch
    \/ PageCompletes
    \/ GatherReturn

FairSpec == Spec /\ WF_vars(FetchStep)

Terminal == {"Done-Empty", "Done", "Failed"}

\* C15: if every request issued eventually gets a response or fails and
\* every ready step is run, the fetch operation eventually is in one of
\* Done-Empty, Done and Failed and stays in it; it is in Done only when all
\* pageCount page tasks have completed successfully.
C15_Terminates ==
    /\ <>(FetchState(fpc, total_pages) \in Terminal)
    /\ [][FetchState(fpc, total_pages) \in Terminal =>
             FetchState(fpc', total_pages') = FetchState(fpc, total_pages)]_vars
    /\ [](fpc = "done" =>
             /\ Len(task) = total_pages
             /\ \A p \in 1..total_pages : task[p] = "ok")

C15_Witness ==
    /\ FetchState(fpc, total_pages) = "Done"
    /\ total_pages = MaxPages
    /\ \A p \in 1..total_pages : task[p] = "ok"

\* the page tasks whose result gather collected
Collected == {res[k].i + 1 : k \in 1..Len(res)}

\* C16: the failure of a page task fails the fetch at once, whether or not
\* sibling tasks are still in flight; what the siblings return afterwards is
\* dropped: it reaches neither gather's results, nor a returned list, nor the
\* output file.
C16_FailureSurfacedAtOnce ==
    /\ []((\E p \in 1..Len(task) : task[p] = "failed") =>
             (fpc = "failed" /\ mpc = "raised" /\ error # ""))
    /\ [](fpc = "failed" => (result = << >> /\ file.st = "untouched"))
    /\ [][fpc = "failed" =>
             (fpc' = "failed" /\ res' = res /\ result' = result /\ file' = file)]_vars

C16_Witness ==
    /\ fpc = "failed"
    /\ mpc = "raised"
    /\ \E p \in 1..Len(task) : task[p] = "inflight"
    /\ \E q \in 1..Len(task) : task[q] = "ok" /\ q \notin Collected
    /\ result = << >>

AllInFlight == \A p \in 1..Len(task) : task[p] = "inflight"

\* C17: the page tasks are launched together: the step that issues a page
\* request issues the requests of all pageCount pages, before any page
\* response has been handled, and leaves all of them outstanding; no record
\* reaches the caller before all the tasks were joined.
C17_LaunchedTogether ==
    /\ [][Len(sent') > Len(sent) /\ Len(sent) >= 1 =>
             /\ Completed = {}
             /\ Len(res) = 0
             /\ total_pages' = TotalPages(total)
             /\ Len(task') = total_pages'
             /\ \A p \in 1..total_pages' : task'[p] = "inflight"
             /\ sent' = sent \o [p \in 1..total_pages' |-> [page |-> p, size |-> PAGE_SIZE]]
      ]_vars
    /\ [](fpc # "done" => result = << >>)
    /\ [](fpc = "done" => Collected = 1..total_pages)

C17_Witness ==
    /\ fpc = "fetching"
    /\ total_pages = MaxPages
    /\ AllInFlight
    /\ Len(task) = MaxPages
    /\ Len(sent) = 1 + MaxPages

\* C19: the pages requested are fixed once, from the totalRows the probe
\* read: a change of the remote dataset after the probe adds no request and
\* drops none, the probe is not repeated, and the fetch still returns, with
\* what the planned pages hold.
C19_PlanFixedByProbe ==
    /\ [][remote' # remote => UNCHANGED << sent, total, total_pages, task, fpc >>]_vars
    /\ [][Launched => (sent' = sent /\ total' = total /\ total_pages' = total_pages)]_vars
    /\ [](Launched =>
             /\ total_pages = TotalPages(total)
             /\ TimesSent(ProbeRequest) = 1
             /\ {sent[k].page : k \in 2..Len(sent)} = 1..total_pages
             /\ Len(sent) = 1 + total_pages)
    /\ [](fpc = "done" => result = PagesInOrder(TotalPages(total)))

C19_Witness ==
    /\ fpc = "done"
    /\ changes > 0
    /\ TotalPages(Len(remote)) # total_pages
    /\ Len(sent) = 1 + TotalPages(total)

====
